---- MODULE Spec2Model ----
(***************************************************************************)
(* A model of app.py, the Streamlit contact manager.                       *)
(*                                                                         *)
(* A string is a sequence of one-character strings, so that the regular    *)
(* expressions, str.lower, str.upper and str.strip of the source are       *)
(* computed character by character.  A data frame is a record              *)
(* [columns, rows]; a row is a function from column names to cell values.  *)
(* Every action is one run of the script (Streamlit re-runs the whole      *)
(* script on each interaction), with the widget values of that run.        *)
(***************************************************************************)
EXTENDS Integers, Sequences, FiniteSets, TLC

VARIABLES
    contactFile,    \* contacts.csv: the table last written / initially present
    listsFile,      \* saved_lists.json: [exists, text]
    cache,          \* st.cache_data entry of load_contacts(): [loaded, df]
    filter_mode,    \* the "Filter Mode" radio
    checked,        \* the tag checkboxes that are ticked
    tags,           \* extract_tags(df) of the last run
    view,           \* df after tag_filter_ui in the last run (tab1's df)
    ret,            \* df returned by add_contact_ui in the last run
    saved_lists,    \* the saved_lists dict at the end of the last run
    lastOp,         \* what the last run did
    lastArg,        \* text input of the last run (list name / new contact)
    lastMembers,    \* names selected in the last run
    added,          \* display names added by "Add Contact" so far
    matrixFile,     \* channel_matrix.xlsx, first sheet
    charterer,      \* the "Select a Charterer" selectbox
    yes_ops,        \* the two series shown by channel_matrix_ui
    no_ops

vars == <<contactFile, listsFile, cache, filter_mode, checked, tags, view, ret,
          saved_lists, lastOp, lastArg, lastMembers, added,
          matrixFile, charterer, yes_ops, no_ops>>

contactVars == <<contactFile, cache, filter_mode, checked, tags, view, ret,
                 lastOp, lastArg, lastMembers, added>>
listVars == <<listsFile, saved_lists>>
matrixVars == <<matrixFile, charterer, yes_ops, no_ops>>

----------------------------------------------------------------------------
(* Bounds of the model. *)

MaxContacts == 2
MaxNameLen == 3
MaxMatrixRows == 2

----------------------------------------------------------------------------
(* Characters and strings. *)

Digits == <<"0", "1", "2", "3", "4", "5", "6", "7", "8", "9">>
UpperChars == <<"A", "B", "C", "D", "E", "F", "G", "H", "I", "J", "K", "L", "M",
                "N", "O", "P", "Q", "R", "S", "T", "U", "V", "W", "X", "Y", "Z">>
LowerChars == <<"a", "b", "c", "d", "e", "f", "g", "h", "i", "j", "k", "l", "m",
                "n", "o", "p", "q", "r", "s", "t", "u", "v", "w", "x", "y", "z">>

Range(s) == {s[i] : i \in DOMAIN s}
InSeq(x, s) == \E i \in DOMAIN s : s[i] = x
IndexOf(s, c) == CHOOSE i \in DOMAIN s : s[i] = c

S(str) ==
    \* a string literal as the sequence of its characters
    CASE str = "" -> <<>>
      [] str = " " -> <<" ">>
      [] str = "  " -> <<" ", " ">>
      [] str = "+a" -> <<"+", "a">>
      [] str = "+b" -> <<"+", "b">>
      [] str = "c" -> <<"c">>
      [] str = "+a+b" -> <<"+", "a", "+", "b">>
      [] str = "+A x" -> <<"+", "A", " ", "x">>
      [] str = "+B+7" -> <<"+", "B", "+", "7">>
      [] str = "+Foo123 +456" ->
            <<"+", "F", "o", "o", "1", "2", "3", " ", "+", "4", "5", "6">>
      [] str = "+foo123" -> <<"+", "f", "o", "o", "1", "2", "3">>
      [] str = "+123abc" -> <<"+", "1", "2", "3", "a", "b", "c">>
      [] str = "+b d" -> <<"+", "b", " ", "d">>
      [] str = "nan" -> <<"n", "a", "n">>
      [] str = "YES" -> <<"Y", "E", "S">>
      [] str = "yes" -> <<"y", "e", "s">>
      [] str = "Yes" -> <<"Y", "e", "s">>
      [] str = "NO" -> <<"N", "O">>
      [] str = "no" -> <<"n", "o">>
      [] str = "YES " -> <<"Y", "E", "S", " ">>
      [] str = "N" -> <<"N">>
      [] str = "X" -> <<"X">>
      [] str = "Y" -> <<"Y">>
      [] str = "p" -> <<"p">>
      [] str = "T1" -> <<"T", "1">>
      [] str = "T2" -> <<"T", "2">>
      [] str = "True" -> <<"T", "r", "u", "e">>
      [] str = "False" -> <<"F", "a", "l", "s", "e">>
      [] str = "maybe" -> <<"m", "a", "y", "b", "e">>

\* a missing value (pandas NaN); it is no string
NaN == <<"NaN">>

\* str(v), astype(str): a missing value becomes the text "nan"
str_(v) == IF v = NaN THEN S("nan") ELSE v

DigitSet == Range(Digits)
UpperSet == Range(UpperChars)
LowerSet == Range(LowerChars)
IsDigit(c) == c \in DigitSet
IsUpper(c) == c \in UpperSet
IsLower(c) == c \in LowerSet
\* \w
IsWord(c) == IsDigit(c) \/ IsUpper(c) \/ IsLower(c) \/ c = "_"
\* str.strip() removes these
IsSpace(c) == c \in {" ", "\t", "\n"}

ToLower == [c \in UpperSet |-> LowerChars[IndexOf(UpperChars, c)]]
ToUpper == [c \in LowerSet |-> UpperChars[IndexOf(LowerChars, c)]]
lower_char(c) == IF IsUpper(c) THEN ToLower[c] ELSE c
upper_char(c) == IF IsLower(c) THEN ToUpper[c] ELSE c
\* the text compared as it is, as if .str.upper() were left out
upper_omitted(s) == s
lower(s) == [i \in 1..Len(s) |-> lower_char(s[i])]
upper(s) == [i \in 1..Len(s) |-> upper_char(s[i])]

\* ord(c), the order sorted() compares strings by
ord(c) ==
    CASE c = "\t" -> 9
      [] c = "\n" -> 10
      [] c = " " -> 32
      [] c = "+" -> 43
      [] IsDigit(c) -> 47 + IndexOf(Digits, c)
      [] IsUpper(c) -> 64 + IndexOf(UpperChars, c)
      [] c = "_" -> 95
      [] IsLower(c) -> 96 + IndexOf(LowerChars, c)

RECURSIVE StrLess(_, _)
StrLess(a, b) ==
    IF a = <<>> THEN b # <<>>
    ELSE IF b = <<>> THEN FALSE
    ELSE IF a[1] = b[1] THEN StrLess(Tail(a), Tail(b))
    ELSE ord(a[1]) < ord(b[1])

RECURSIVE sorted(_)
sorted(set) ==
    IF set = {} THEN <<>>
    ELSE LET m == CHOOSE x \in set : \A y \in set \ {x} : StrLess(x, y)
         IN <<m>> \o sorted(set \ {m})

RECURSIVE lstrip(_)
lstrip(s) == IF s # <<>> /\ IsSpace(s[1]) THEN lstrip(Tail(s)) ELSE s
RECURSIVE rstrip(_)
rstrip(s) ==
    IF s # <<>> /\ IsSpace(s[Len(s)]) THEN rstrip(SubSeq(s, 1, Len(s) - 1)) ELSE s
\* the text taken as it is, as if .strip() were left out
strip_omitted(s) == s
strip(s) == rstrip(lstrip(s))

----------------------------------------------------------------------------
(* Tags. *)

RECURSIVE WordRunEnd(_, _)
WordRunEnd(s, i) ==
    \* the last index of the run of word characters that starts at i
    IF i <= Len(s) /\ IsWord(s[i]) THEN WordRunEnd(s, i + 1) ELSE i - 1

RECURSIVE FindAllFrom(_, _)
FindAllFrom(s, i) ==
    IF i > Len(s) THEN <<>>
    ELSE IF s[i] = "+" /\ i + 1 <= Len(s) /\ IsWord(s[i + 1])
         THEN LET e == WordRunEnd(s, i + 1)
              IN <<SubSeq(s, i, e)>> \o FindAllFrom(s, e + 1)
         ELSE FindAllFrom(s, i + 1)

\* re.findall(r'\+\w+', s): leftmost, greedy, non-overlapping
findall_plus_word(s) == FindAllFrom(s, 1)

\* re.match(r'\+\d+', t): a match at the start of t, not of the whole of t
match_plus_digits(t) == Len(t) >= 2 /\ t[1] = "+" /\ IsDigit(t[2])

\* [t.lower() for t in re.findall(r'\+\w+', str(name)) if not re.match(r'\+\d+', t)]
name_tags(name) ==
    LET kept == SelectSeq(findall_plus_word(str_(name)),
                          LAMBDA t : ~match_plus_digits(t))
    IN [i \in 1..Len(kept) |-> lower(kept[i])]

extract_tags(df) ==
    sorted(UNION {Range(name_tags(df.rows[i].display_name)) : i \in DOMAIN df.rows})

\* all and any exchanged
match_tags_swapped(name, selected_tags, mode) ==
    LET found == name_tags(name)
    IN IF mode = "AND"
       THEN \E i \in DOMAIN selected_tags : InSeq(selected_tags[i], found)
       ELSE \A i \in DOMAIN selected_tags : InSeq(selected_tags[i], found)

match_tags(name, selected_tags, mode) ==
    LET found == name_tags(name)
    IN IF mode = "AND"
       THEN \A i \in DOMAIN selected_tags : InSeq(selected_tags[i], found)
       ELSE \E i \in DOMAIN selected_tags : InSeq(selected_tags[i], found)

\* the mask applied also when nothing is selected
filter_rows_unguarded(df, selected_tags, mode) ==
    [df EXCEPT !.rows =
        SelectSeq(df.rows,
                  LAMBDA r : match_tags(r.display_name, selected_tags, mode))]

\* lines 56-65 of tag_filter_ui: the rows kept, in their order
filter_rows(df, selected_tags, mode) ==
    IF selected_tags # <<>>
    THEN [df EXCEPT !.rows =
            SelectSeq(df.rows,
                      LAMBDA r : match_tags(r.display_name, selected_tags, mode))]
    ELSE df

\* lines 50-54: the ticked tags, in the order of the checkboxes
selected_of(tagList, ticked) == SelectSeq(tagList, LAMBDA t : t \in ticked)

----------------------------------------------------------------------------
(* The contact table and its file. *)

EmptyDf == [columns |-> <<>>, rows |-> <<>>]

\* pd.read_csv: an empty field is a missing value; the checkbox column, of
\* True/False fields, is read as booleans
parse_cell(c, text) ==
    IF c = "checkbox" THEN text = S("True")
    ELSE IF text = <<>> THEN NaN ELSE text

read_csv(file) ==
    [columns |-> file.columns,
     rows |-> [i \in 1..Len(file.rows) |->
                 [c \in Range(file.columns) |-> parse_cell(c, file.rows[i][c])]]]

\* DataFrame.to_csv(index=False): a missing value is written as an empty field
format_cell(c, v) ==
    IF c = "checkbox" THEN (IF v THEN S("True") ELSE S("False"))
    ELSE IF v = NaN THEN <<>> ELSE v

to_csv(df) ==
    [columns |-> df.columns,
     rows |-> [i \in 1..Len(df.rows) |->
                 [c \in Range(df.columns) |-> format_cell(c, df.rows[i][c])]]]

load_contacts(file) ==
    LET df == read_csv(file)
    IN IF ~InSeq("checkbox", df.columns)
       THEN [columns |-> Append(df.columns, "checkbox"),
             rows |-> [i \in 1..Len(df.rows) |->
                         [c \in Range(df.columns) \cup {"checkbox"} |->
                             IF c = "checkbox" THEN FALSE ELSE df.rows[i][c]]]]
       ELSE df

display_names(df) == [i \in 1..Len(df.rows) |-> df.rows[i].display_name]

\* lines 115-118: the new row, with every column of df
new_row(df, new_contact) ==
    [c \in Range(df.columns) \cup {"display_name"} |->
        IF c = "display_name" THEN new_contact
        ELSE IF c = "checkbox" THEN FALSE ELSE <<>>]

\* line 119: pd.concat([df, new_row[df.columns]], ignore_index=True)
concat_row(df, new_contact) ==
    [df EXCEPT !.rows = Append(df.rows,
        [c \in Range(df.columns) |-> new_row(df, new_contact)[c]])]

\* line 105: df["display_name"] = editable_df["display_name"]
set_display_names(df, names) ==
    [df EXCEPT !.rows = [i \in 1..Len(df.rows) |->
        [df.rows[i] EXCEPT !["display_name"] = names[i]]]]

----------------------------------------------------------------------------
(* The saved lists: a dict, in insertion order, and its JSON file. *)

EmptyDict == [keys |-> <<>>, val |-> <<>>]
AbsentFile == [exists |-> FALSE, text |-> <<>>]

\* d[k] = v
dict_set(d, k, v) ==
    [keys |-> IF InSeq(k, d.keys) THEN d.keys ELSE Append(d.keys, k),
     val |-> [x \in Range(d.keys) \cup {k} |-> IF x = k THEN v ELSE d.val[x]]]

\* del d[k], for k a key of d
dict_del(d, k) ==
    [keys |-> SelectSeq(d.keys, LAMBDA x : x # k),
     val |-> [x \in Range(d.keys) \ {k} |-> d.val[x]]]

\* json.dump: the members of the object, in the dict's order
json_dump(d) == [i \in 1..Len(d.keys) |-> <<d.keys[i], d.val[d.keys[i]]>>]

\* json.load: the members from first to last, a repeated name taking the last value
RECURSIVE json_load_from(_, _, _)
json_load_from(text, i, d) ==
    IF i > Len(text) THEN d
    ELSE json_load_from(text, i + 1, dict_set(d, text[i][1], text[i][2]))
json_load(text) == json_load_from(text, 1, EmptyDict)

load_saved_lists(file) == IF file.exists THEN json_load(file.text) ELSE EmptyDict

save_lists(lists) == [exists |-> TRUE, text |-> json_dump(lists)]

\* "or" in place of "and" in the guard of line 78
save_selected_or(lists, file, list_name, selected) ==
    IF list_name # <<>> \/ selected # <<>>
    THEN LET d == dict_set(lists, list_name, selected)
         IN [lists |-> d, file |-> save_lists(d), raised |-> ""]
    ELSE [lists |-> lists, file |-> file, raised |-> ""]

\* lines 78-80: what "Save Selected Contacts" leaves: the dict and the file
save_selected(lists, file, list_name, selected) ==
    IF list_name # <<>> /\ selected # <<>>
    THEN LET d == dict_set(lists, list_name, selected)
         IN [lists |-> d, file |-> save_lists(d), raised |-> ""]
    ELSE [lists |-> lists, file |-> file, raised |-> ""]

\* lines 91-92
update_list(lists, file, selected_list, selected) ==
    LET d == dict_set(lists, selected_list, selected)
    IN [lists |-> d, file |-> save_lists(d), raised |-> ""]

\* saved_lists.pop(selected_list, None) in place of del
delete_list_pop(lists, file, selected_list) ==
    LET d == dict_del(lists, selected_list)
    IN [lists |-> d, file |-> save_lists(d), raised |-> ""]

\* lines 96-97: del raises KeyError for a name that is no key, before save_lists
delete_list(lists, file, selected_list) ==
    IF InSeq(selected_list, lists.keys)
    THEN LET d == dict_del(lists, selected_list)
         IN [lists |-> d, file |-> save_lists(d), raised |-> ""]
    ELSE [lists |-> lists, file |-> file, raised |-> "KeyError"]

----------------------------------------------------------------------------
(* The channel matrix. *)

\* line 129: the first column, whatever its header, becomes "Operator"
rename_first(df) ==
    LET cols == <<"Operator">> \o Tail(df.columns)
    IN [columns |-> cols,
        rows |-> [i \in 1..Len(df.rows) |->
                    [c \in Range(cols) |->
                        IF c = "Operator" THEN df.rows[i][df.columns[1]]
                        ELSE df.rows[i][c]]]]

\* lines 133-134: matrix_df[matrix_df[selected].astype(str).str.upper() == word]
\* ["Operator"].dropna(), a series that keeps the rows' index labels
ops_equal(matrix_df, selected, word) ==
    LET rows == matrix_df.rows
        hits == SelectSeq([i \in 1..Len(rows) |-> i],
                          LAMBDA i : upper(str_(rows[i][selected])) = word)
        kept == SelectSeq(hits, LAMBDA i : rows[i].Operator # NaN)
    IN [k \in 1..Len(kept) |->
            [index |-> kept[k] - 1, Operator |-> rows[kept[k]].Operator]]

charterers(file) == Tail(rename_first(file).columns)

----------------------------------------------------------------------------
(* Inputs of the model. *)

SeqsUpTo(pool, n) == UNION {[1..k -> pool] : k \in 0..n}

\* contact files of the contact-manager sessions
SessionRows ==
    {[display_name |-> S("+a"), phone |-> S("p")],
     [display_name |-> S("+a+b"), phone |-> <<>>],
     [display_name |-> S("c"), phone |-> <<>>]}

with_checkbox(file) ==
    [columns |-> Append(file.columns, "checkbox"),
     rows |-> [i \in 1..Len(file.rows) |->
                 [c \in Range(file.columns) \cup {"checkbox"} |->
                     IF c = "checkbox" THEN S("False") ELSE file.rows[i][c]]]]

PlainFiles ==
    {[columns |-> <<"display_name", "phone">>, rows |-> r] :
        r \in SeqsUpTo(SessionRows, MaxContacts)}
\* contact files of the saved-list sessions
ListSessionFiles ==
    {[columns |-> <<"display_name", "phone">>, rows |-> r] :
        r \in SeqsUpTo({[display_name |-> S("+a"), phone |-> S("p")],
                         [display_name |-> S("c"), phone |-> <<>>]}, MaxContacts)}
SessionFiles == PlainFiles \cup {with_checkbox(f) : f \in PlainFiles}

\* contact files for the tag functions: every one-row table whose name is a
\* string of at most MaxNameLen characters, and the tables over TagNames
TagAlphabet == {"+", "a", "A", "1", " "}
TagNames ==
    {S("+Foo123 +456"), S("+123abc"), S("+a+b"), S("+A x"), S("+B+7"), S("c"), S("")}
TagFiles ==
    {[columns |-> <<"display_name">>, rows |-> <<[display_name |-> n]>>] :
        n \in SeqsUpTo(TagAlphabet, MaxNameLen)}
    \cup {[columns |-> <<"display_name">>,
           rows |-> [i \in 1..Len(ns) |-> [display_name |-> ns[i]]]] :
            ns \in SeqsUpTo(TagNames, MaxContacts)}

EditName == S("+b")
RawNames == {S(""), S("  "), S("+b d"), S("c")}
ListNames == {S(""), S("T1"), S("T2")}
ListsFiles ==
    {AbsentFile, [exists |-> TRUE, text |-> << <<S("T1"), <<S("+a")>> >> >>]}

MatrixRows ==
    {[Name |-> o, CharterA |-> a, CharterB |-> b] :
        o \in {S("X"), S("Y"), NaN},
        a \in {S("YES"), S("yes"), S("Yes"), S("NO"), S("no"), NaN,
                S("maybe"), S("YES ")},
        b \in {S("no"), S("YES")}}
MatrixFiles ==
    {[columns |-> <<"Name", "CharterA", "CharterB">>, rows |-> r] :
        r \in SeqsUpTo(MatrixRows, MaxMatrixRows)}
OneMatrix ==
    [columns |-> <<"Name", "CharterA", "CharterB">>,
     rows |-> <<[Name |-> S("X"), CharterA |-> S("yes"), CharterB |-> S("no")]>>]
OneContactFile ==
    [columns |-> <<"display_name", "phone">>,
     rows |-> <<[display_name |-> S("+a"), phone |-> S("p")]>>]

----------------------------------------------------------------------------
(* The script.  tab1's df is the cached table, filtered. *)

tab1_df(df, mode, ticked) ==
    filter_rows(df, selected_of(extract_tags(df), ticked), mode)

InitWith(contacts, lists, matrix) ==
    /\ contactFile = contacts
    /\ listsFile = lists
    /\ matrixFile = matrix
    /\ cache = [loaded |-> FALSE, df |-> EmptyDf]
    /\ filter_mode = "AND"
    /\ checked = {}
    /\ tags = <<>>
    /\ view = EmptyDf
    /\ ret = EmptyDf
    /\ saved_lists = EmptyDict
    /\ lastOp = "start"
    /\ lastArg = <<>>
    /\ lastMembers = <<>>
    /\ added = {}
    /\ charterer = ""
    /\ yes_ops = <<>>
    /\ no_ops = <<>>

\* The first run: load_contacts() is evaluated and cached; every widget has
\* its default (AND, no tag ticked, the first charterer).
OpenPage ==
    /\ ~cache.loaded
    /\ LET df == load_contacts(contactFile)
           sel == charterers(matrixFile)[1]
       IN /\ cache' = [loaded |-> TRUE, df |-> df]
          /\ tags' = extract_tags(df)
          /\ view' = tab1_df(df, filter_mode, checked)
          /\ ret' = view'
          /\ charterer' = sel
          /\ yes_ops' = ops_equal(rename_first(matrixFile), sel, S("YES"))
          /\ no_ops' = ops_equal(rename_first(matrixFile), sel, S("NO"))
    /\ saved_lists' = load_saved_lists(listsFile)
    /\ lastOp' = "open"
    /\ UNCHANGED <<contactFile, listsFile, matrixFile, filter_mode, checked,
                   lastArg, lastMembers, added>>

\* A run in which no button is pressed, with the widgets at (mode, ticked).
Rerun(mode, ticked) ==
    /\ filter_mode' = mode
    /\ checked' = ticked
    /\ tags' = extract_tags(cache.df)
    /\ view' = tab1_df(cache.df, mode, ticked)
    /\ ret' = view'
    /\ saved_lists' = load_saved_lists(listsFile)
    /\ lastArg' = <<>>
    /\ lastMembers' = <<>>
    /\ UNCHANGED <<contactFile, listsFile, cache, added>>

ToggleTag(t) ==
    /\ cache.loaded
    /\ t \in Range(extract_tags(cache.df))
    /\ Rerun(filter_mode, IF t \in checked THEN checked \ {t} ELSE checked \cup {t})
    /\ lastOp' = "filter"
    /\ UNCHANGED matrixVars

SetMode(m) ==
    /\ cache.loaded
    /\ m # filter_mode
    /\ Rerun(m, checked)
    /\ lastOp' = "filter"
    /\ UNCHANGED matrixVars

SelectCharterer(c) ==
    /\ cache.loaded
    /\ InSeq(c, charterers(matrixFile))
    /\ Rerun(filter_mode, checked)
    /\ charterer' = c
    /\ yes_ops' = ops_equal(rename_first(matrixFile), c, S("YES"))
    /\ no_ops' = ops_equal(rename_first(matrixFile), c, S("NO"))
    /\ lastOp' = "matrix"
    /\ UNCHANGED matrixFile

\* "Save Edited Contacts": the editor holds the display names of tab1's df,
\* row i retyped as EditName where edit[i]
SaveEdited(edit) ==
    /\ cache.loaded
    /\ tags' = extract_tags(cache.df)
    /\ view' = tab1_df(cache.df, filter_mode, checked)
    /\ LET names == [i \in 1..Len(view'.rows) |->
                        IF edit[i] THEN EditName ELSE view'.rows[i].display_name]
       IN /\ ret' = set_display_names(view', names)
          /\ lastMembers' = names
    /\ contactFile' = to_csv(ret')
    /\ saved_lists' = load_saved_lists(listsFile)
    /\ lastOp' = "edit"
    /\ lastArg' = <<>>
    /\ UNCHANGED <<listsFile, cache, filter_mode, checked, added>>
    /\ UNCHANGED matrixVars

\* "Add Contact" with the text input holding new_contact
AddContact(new_contact) ==
    /\ cache.loaded
    /\ tags' = extract_tags(cache.df)
    /\ view' = tab1_df(cache.df, filter_mode, checked)
    /\ IF strip(new_contact) # <<>>
       THEN /\ ret' = concat_row(view', new_contact)
            /\ contactFile' = to_csv(ret')
            /\ added' = added \cup {new_contact}
       ELSE /\ ret' = view'
            /\ UNCHANGED <<contactFile, added>>
    /\ saved_lists' = load_saved_lists(listsFile)
    /\ lastOp' = "add"
    /\ lastArg' = new_contact
    /\ lastMembers' = <<>>
    /\ UNCHANGED <<listsFile, cache, filter_mode, checked>>
    /\ UNCHANGED matrixVars

\* the display names of the rows whose checkbox is ticked, in row order
ticked_names(df, ticks) ==
    LET idx == SelectSeq([i \in 1..Len(df.rows) |-> i], LAMBDA i : ticks[i])
    IN [k \in 1..Len(idx) |-> df.rows[idx[k]].display_name]

\* a list button: the run shows tab1's df, and out is the dict and the file
\* that the button's statements leave
ListRun(button, name, selected, out) ==
    /\ tags' = extract_tags(cache.df)
    /\ view' = tab1_df(cache.df, filter_mode, checked)
    /\ ret' = view'
    /\ saved_lists' = out.lists
    /\ listsFile' = out.file
    /\ lastOp' = button
    /\ lastArg' = name
    /\ lastMembers' = selected
    /\ UNCHANGED <<contactFile, cache, filter_mode, checked, added>>
    /\ UNCHANGED matrixVars

\* "Save Selected Contacts" with "List Name" holding list_name
SaveSelected(list_name, ticks) ==
    /\ cache.loaded
    /\ LET selected == ticked_names(tab1_df(cache.df, filter_mode, checked), ticks)
       IN ListRun("save_list", list_name, selected,
                  save_selected(load_saved_lists(listsFile), listsFile,
                                list_name, selected))

\* "Update List": the selectbox offers the keys of saved_lists.  (A run in
\* which st.multiselect refuses a default that is not among its options stops
\* before the two buttons below; the runs of the script are among these.)
UpdateList(selected_list, ticks) ==
    /\ cache.loaded
    /\ InSeq(selected_list, load_saved_lists(listsFile).keys)
    /\ selected_list # <<>>
    /\ LET selected == ticked_names(tab1_df(cache.df, filter_mode, checked), ticks)
       IN ListRun("update_list", selected_list, selected,
                  update_list(load_saved_lists(listsFile), listsFile,
                              selected_list, selected))

\* "Delete List": the selectbox offers the keys of saved_lists
DeleteList(selected_list) ==
    /\ cache.loaded
    /\ InSeq(selected_list, load_saved_lists(listsFile).keys)
    /\ selected_list # <<>>
    /\ ListRun("delete_list", selected_list, <<>>,
               delete_list(load_saved_lists(listsFile), listsFile, selected_list))

\* one tick per row of the table on show
Ticks == [1..Len(view.rows) -> BOOLEAN]

----------------------------------------------------------------------------
(* Specifications.  The contact buttons never write saved_lists.json, the   *)
(* list buttons never write contacts.csv, and neither touches the matrix,  *)
(* so each part of the script is explored on its own, over its own files.  *)

\* the contact manager's contact table
Init == \E f \in SessionFiles : InitWith(f, AbsentFile, OneMatrix)
Next ==
    \/ OpenPage
    \/ \E t \in Range(tags) : ToggleTag(t)
    \/ \E m \in {"AND", "OR"} : SetMode(m)
    \/ \E edit \in Ticks : SaveEdited(edit)
    \/ \E n \in RawNames : AddContact(n)
Spec == Init /\ [][Next]_vars

\* the saved lists
InitLists ==
    \E f \in ListSessionFiles, l \in ListsFiles : InitWith(f, l, OneMatrix)
NextLists ==
    \/ OpenPage
    \/ \E t \in Range(tags) : ToggleTag(t)
    \/ \E n \in ListNames, ticks \in Ticks : SaveSelected(n, ticks)
    \/ \E n \in ListNames, ticks \in Ticks : UpdateList(n, ticks)
    \/ \E n \in ListNames : DeleteList(n)
SpecLists == InitLists /\ [][NextLists]_vars

\* the tag functions
InitTags == \E f \in TagFiles : InitWith(f, AbsentFile, OneMatrix)
NextTags ==
    \/ OpenPage
    \/ \E t \in Range(tags) : ToggleTag(t)
    \/ \E m \in {"AND", "OR"} : SetMode(m)
SpecTags == InitTags /\ [][NextTags]_vars

\* the channel matrix
InitMatrix == \E m \in MatrixFiles : InitWith(OneContactFile, AbsentFile, m)
NextMatrix ==
    \/ OpenPage
    \/ \E c \in {"CharterA", "CharterB"} : SelectCharterer(c)
SpecMatrix == InitMatrix /\ [][NextMatrix]_vars

----------------------------------------------------------------------------
(* The tags as the specification states them. *)

\* a token that is "+" followed by digits only
PurelyNumeric(t) == \A i \in 2..Len(t) : IsDigit(t[i])

\* the lowercased "+word" tokens of a display name, minus the purely numeric
StatedNameTags(name) ==
    {lower(t) : t \in {u \in Range(findall_plus_word(str_(name))) :
                            ~PurelyNumeric(u)}}

StatedTags(df) == UNION {StatedNameTags(df.rows[i].display_name) : i \in DOMAIN df.rows}

IsSortedNoDup(s) == \A i \in 1..(Len(s) - 1) : StrLess(s[i], s[i + 1])

\* a text input that is empty or made only of whitespace
Blank(s) == \A i \in DOMAIN s : IsSpace(s[i])

\* a cell that reads YES / NO whatever the case of its letters
ReadsYes(v) ==
    /\ v # NaN
    /\ Len(v) = 3
    /\ v[1] \in {"Y", "y"} /\ v[2] \in {"E", "e"} /\ v[3] \in {"S", "s"}
ReadsNo(v) ==
    /\ v # NaN
    /\ Len(v) = 2
    /\ v[1] \in {"N", "n"} /\ v[2] \in {"O", "o"}

----------------------------------------------------------------------------
(* Claims. *)

\* C1: extract_tags returns, sorted ascending and without duplicates, exactly
\* the lowercased "+word" tokens of the display names minus those that are "+"
\* followed by digits only; "+123abc" is kept; "+Foo123 +456" yields only the
\* tag of "+Foo123".
C1_ExtractTagsStated ==
    cache.loaded =>
        /\ IsSortedNoDup(tags)
        /\ Range(tags) = StatedTags(cache.df)
        /\ (display_names(cache.df) = <<S("+Foo123 +456")>> => tags = <<S("+foo123")>>)
        /\ (display_names(cache.df) = <<S("+123abc")>> => tags = <<S("+123abc")>>)

\* C2: with a non-empty selection, the tag filter returns exactly the contacts
\* whose own tag set contains every selected tag (AND) or at least one (OR),
\* in the order they had in the input.
C2_FilterExact ==
    (cache.loaded /\ checked # {}) =>
        view = [cache.df EXCEPT !.rows =
                  SelectSeq(cache.df.rows,
                            LAMBDA r :
                                IF filter_mode = "AND"
                                THEN checked \subseteq StatedNameTags(r.display_name)
                                ELSE checked \cap StatedNameTags(r.display_name) # {})]

C2_Witness ==
    /\ lastOp = "filter"
    /\ filter_mode = "AND"
    /\ Cardinality(checked) = 2
    /\ Len(view.rows) = 1
    /\ Len(cache.df.rows) = 2

\* C3: with no tag selected, the tag filter returns its input unchanged in both
\* modes; OR with an empty selection does not filter every contact out.
C3_EmptySelectionNoOp ==
    (cache.loaded /\ checked = {}) => view = cache.df

C3_Witness ==
    /\ lastOp = "filter"
    /\ checked = {}
    /\ filter_mode = "OR"
    /\ tags # <<>>
    /\ Len(view.rows) = 2

\* C4: "Save Selected Contacts" changes neither the dict nor the file when the
\* name or the selection is empty; otherwise the name maps to exactly the
\* selection, every other entry is kept, and a following load returns it.
C4_SaveSelected ==
    [][lastOp' = "save_list" =>
        LET before == load_saved_lists(listsFile)
            after == load_saved_lists(listsFile')
        IN IF lastArg' = <<>> \/ lastMembers' = <<>>
           THEN saved_lists' = before /\ listsFile' = listsFile
           ELSE /\ Range(saved_lists'.keys) = Range(before.keys) \cup {lastArg'}
                /\ saved_lists'.val[lastArg'] = lastMembers'
                /\ \A k \in Range(before.keys) \ {lastArg'} :
                        saved_lists'.val[k] = before.val[k]
                /\ listsFile'.exists
                /\ InSeq(lastArg', after.keys)
                /\ after.val[lastArg'] = lastMembers'
                /\ after = saved_lists']_vars

C4_Witness ==
    /\ lastOp = "save_list"
    /\ lastArg = S("T1")
    /\ Len(lastMembers) = 2
    /\ Len(saved_lists.keys) = 2
    /\ listsFile.exists

\* a "Delete List" step removes exactly the chosen key and writes the file
DeleteStep ==
    lastOp' = "delete_list" =>
        LET before == load_saved_lists(listsFile)
        IN /\ InSeq(lastArg', before.keys)
           /\ Range(saved_lists'.keys) = Range(before.keys) \ {lastArg'}
           /\ \A k \in Range(saved_lists'.keys) : saved_lists'.val[k] = before.val[k]
           /\ listsFile'.exists
           /\ load_saved_lists(listsFile') = saved_lists'

\* lines 96-97 run with a name that is no key of the dict on file
DeleteAbsent ==
    LET lists == load_saved_lists(listsFile)
    IN \A n \in ListNames :
          ~InSeq(n, lists.keys) =>
              delete_list(lists, listsFile, n) =
                  [lists |-> lists, file |-> listsFile, raised |-> "KeyError"]

\* C5: deleting a name the dict contains removes exactly that key and persists;
\* deleting a name it does not contain raises an error and leaves the dict and
\* the file as they were.
C5_Delete == [][DeleteStep]_vars /\ []DeleteAbsent

C5_Witness ==
    /\ lastOp = "delete_list"
    /\ lastArg = S("T1")
    /\ saved_lists.keys = <<S("T2")>>
    /\ listsFile.exists

\* C6: "Add Contact" with an empty or whitespace-only text returns its input
\* unchanged and does not write the contact file.
C6_BlankAddNoOp ==
    [][(lastOp' = "add" /\ Blank(lastArg')) =>
            (ret' = view' /\ contactFile' = contactFile)]_vars

C6_Witness ==
    /\ lastOp = "add"
    /\ lastArg = S("  ")
    /\ Len(ret.rows) = 2

\* C7: "Add Contact" with a non-blank text persists the whole contact
\* collection with exactly one new record at its end (the text as display
\* name, checkbox false, every other attribute empty), whether or not a tag
\* filter is active.
C7_AddKeepsWholeCollection ==
    (lastOp = "add" /\ ~Blank(lastArg)) =>
        contactFile.rows =
            Append(to_csv(cache.df).rows,
                   [display_name |-> lastArg, phone |-> <<>>, checkbox |-> S("False")])

\* C8: "Save Edited Contacts" persists the full contact set: the file has as
\* many records as the contact collection, in the same order, also when a tag
\* filter restricts the rows in the editor.
C8_EditKeepsAllRecords ==
    lastOp = "edit" =>
        /\ Len(contactFile.rows) = Len(cache.df.rows)
        /\ \A i \in 1..Len(contactFile.rows) :
                contactFile.rows[i].phone = to_csv(cache.df).rows[i].phone

\* row i of the matrix, with this operator, is an entry of the series
In(series, i, operator) ==
    \E k \in DOMAIN series : series[k] = [index |-> i - 1, Operator |-> operator]

\* C9: an operator is in yes exactly when its cell in the selected column reads
\* YES whatever the case, in no exactly when it reads NO; any other cell puts it
\* in neither; none is in both; rows without an operator are in neither.
C9_Partition ==
    cache.loaded =>
        LET rows == matrixFile.rows
            first == matrixFile.columns[1]
        IN /\ \A i \in 1..Len(rows) :
                /\ In(yes_ops, i, rows[i][first]) <=>
                        (rows[i][first] # NaN /\ ReadsYes(rows[i][charterer]))
                /\ In(no_ops, i, rows[i][first]) <=>
                        (rows[i][first] # NaN /\ ReadsNo(rows[i][charterer]))
                /\ ~(In(yes_ops, i, rows[i][first]) /\ In(no_ops, i, rows[i][first]))
           /\ \A s \in {yes_ops, no_ops} :
                /\ \A k \in DOMAIN s :
                      /\ s[k].index + 1 \in 1..Len(rows)
                      /\ s[k].Operator = rows[s[k].index + 1][first]
                      /\ s[k].Operator # NaN
                /\ \A k \in 1..(Len(s) - 1) : s[k].index < s[k + 1].index

C9_Witness ==
    /\ lastOp = "matrix"
    /\ charterer = "CharterA"
    /\ Len(matrixFile.rows) = 2
    /\ matrixFile.rows[1].Name = NaN
    /\ matrixFile.rows[1].CharterA = S("YES")
    /\ matrixFile.rows[2].CharterA = S("yes")
    /\ yes_ops = <<[index |-> 1, Operator |-> matrixFile.rows[2].Name]>>
    /\ no_ops = <<>>

\* C10: within one session, in runs with no tag filter, the contact file never
\* loses a record: its number of records never decreases, and every contact
\* added by an earlier "Add Contact" is still in the file after every later one.
C10_FileNeverLosesRecords ==
    [][(checked = {} /\ checked' = {}) =>
          /\ Len(contactFile'.rows) >= Len(contactFile.rows)
          /\ (lastOp' = "add" =>
                \A n \in added : InSeq(n, display_names(contactFile')))]_vars

====
